---- MODULE Spec2Model ----
(***************************************************************************)
(* unit/test-avdtp.c: the scripted PDU exchange between the test harness   *)
(* (peer side of a socketpair) and the AVDTP session engine (SUT side).    *)
(*                                                                         *)
(* The harness code (send_pdu, context_process, test_handler, the          *)
(* create/execute_context pair, the test functions and the session         *)
(* callbacks) is modelled from the source.  The session engine and the     *)
(* kernel socket are the environment: the engine may emit any PDU, hang    *)
(* up, or invoke a registered callback at any time the main loop runs.     *)
(* A failed g_assert aborts the process (abort()).                         *)
(***************************************************************************)
EXTENDS Integers, Sequences, FiniteSets, TLC

\* ------------------------------------------------------------------ bounds
MaxN == 3          \* valid entries of a script, one scenario (Spec)
MaxNSuite == 2     \* valid entries of a script, suite of scenarios (SpecSuite)
MaxNConf == 4      \* valid entries of a script, conforming engine (SpecConf)
MaxInbound == 2    \* PDUs queued in the peer socket, unread
MaxOob == 1        \* script indexes past the second sentinel that are explored
NumTests == 2      \* scenarios registered by main and run by g_test_run (SpecSuite)

\* ------------------------------------------------------------ script store
\* PDU byte strings of the scripts.  The second byte is the one
\* sep_setconf_cfm dispatches on: 0x04, 0x06, or another.
Pdus == { <<0, 1>>, <<0, 4>>, <<0, 6>> }

\* what an engine that may emit anything emits: a script PDU, or one of
\* another length
WirePdus == Pdus \cup { <<1>> }

NULL == "NULL"

\* A PDU queued by an engine that may emit anything: nothing observes its
\* bytes before read() returns them, so they are chosen at the read.
AnyPdu == "any"

\* the byte strings read() may return for a queued PDU
Bytes(m) == IF m = AnyPdu THEN WirePdus ELSE { m }

\* struct test_pdu built by raw_pdu(args...)
raw_pdu(d) == [valid |-> TRUE, data |-> d]

\* the `{ }` terminator entries: valid = false, data = NULL, size = 0
Sentinel == [valid |-> FALSE, data |-> << >>]

\* define_test: pdus[] = { args, { }, { } }, copied into data.pdu_list.
\* Indexes are 0-based as in C.
define_test(s) ==
    [i \in 0 .. (Len(s) + 1) |-> IF i < Len(s) THEN raw_pdu(s[i + 1]) ELSE Sentinel]

RECURSIVE SeqsUpTo(_, _)
SeqsUpTo(S, k) ==
    IF k = 0 THEN { << >> }
    ELSE LET shorter == SeqsUpTo(S, k - 1)
         IN  shorter \cup { Append(s, x) : s \in shorter, x \in S }

\* the test functions registered by main
Kinds == { "test_server", "test_discover", "test_set_configuration",
           "test_get_configuration" }

VARIABLES
    pdu_list,    \* test->pdu_list: the registered script (same bytes in every registration)
    kind,        \* the test function of the registrations
    registered,  \* the number of scenarios main registered
    pduAlloc,    \* pduAlloc[t]: data.pdu_list of registration t is still allocated
    cur,         \* the registration g_test_run is executing (registered + 1: all done)
    pc,          \* "start": test function not yet called, "loop": inside it, "done"
    ctxAlive,    \* struct context allocated (g_new0 .. g_free)
    pdu_offset,  \* context->pdu_offset
    source,      \* context->source: the test_handler watch is attached
    idle,        \* send_pdu idle sources pending with the live context
    stale,       \* send_pdu idle sources pending with contexts already freed
    inbound,     \* PDUs written by the engine, not yet read from sv[1] (see Bytes)
    cond,        \* a terminal condition (HUP/ERR/NVAL) is pending on sv[1]
    quit,        \* g_main_loop_quit was called on context->main_loop
    aborted,     \* a g_assert failed: the process was aborted
    requested,   \* the engine operation requested last, its completion outstanding
    \* history of the running scenario, not read by the harness
    trace,       \* completed writes and verified reads: <<[op, idx], ...>>
    termIdx,     \* cursor at which test_handler saw a terminal condition, or -1
    readDiff,    \* [idx, sameLen] of a read whose bytes differed from the entry, or NoDiff
    lastCb,      \* [name, err, ctx] of the last callback invocation, or NoCb
    res          \* [held, released]: resources held, in the order acquired, and
                 \* those released by the running teardown, in the order released

vars == << pdu_list, kind, registered, pduAlloc, cur, pc, ctxAlive, pdu_offset, source, idle,
           stale, inbound, cond, quit, aborted, requested,
           trace, termIdx, readDiff, lastCb, res >>

NoDiff == [idx |-> -1, sameLen |-> FALSE]
NoCb == [name |-> "none", err |-> FALSE, ctx |-> FALSE]
NoRes == [held |-> << >>, released |-> << >>]

Tests == 1 .. NumTests

\* number of valid entries of the script
ScriptLen == Cardinality(DOMAIN pdu_list) - 2

\* &context->pdu_list[i]: inside the allocation the entry; outside it the read
\* is undefined and may yield anything
EntryAt(i) ==
    IF i \in DOMAIN pdu_list THEN { pdu_list[i] }
    ELSE { Sentinel, raw_pdu(<<0, 1>>) }

TypeOK ==
    /\ kind \in Kinds
    /\ registered \in Tests
    /\ cur \in 1 .. (registered + 1)
    /\ pc \in { "start", "loop", "done" }
    /\ pdu_offset \in Nat
    /\ idle \in Nat
    /\ stale \in Nat
    /\ Len(inbound) <= MaxInbound

InitWith(maxn, ntests) ==
    /\ \E s \in SeqsUpTo(Pdus, maxn) : pdu_list = define_test(s)
    /\ kind \in Kinds
    /\ registered = ntests
    /\ pduAlloc = [t \in Tests |-> TRUE]
    /\ cur = 1
    /\ pc = "start"
    /\ ctxAlive = FALSE
    /\ pdu_offset = 0
    /\ source = FALSE
    /\ idle = 0
    /\ stale = 0
    /\ inbound = << >>
    /\ cond = FALSE
    /\ quit = FALSE
    /\ aborted = FALSE
    /\ requested = "none"
    /\ trace = << >>
    /\ termIdx = -1
    /\ readDiff = NoDiff
    /\ lastCb = NoCb
    /\ res = NoRes

Init == InitWith(MaxN, 1)


\* ------------------------------------------------------------ the harness
\* g_main_loop_run is dispatching: the loop was entered, g_main_loop_quit was
\* not called and no assertion aborted the process
LoopRunning == pc = "loop" /\ ~quit /\ ~aborted

\* mutant: a failed assertion unwinds to the caller instead of aborting
LoopReturns_after_failure == pc = "loop" /\ (quit \/ aborted)

\* g_main_loop_run (execute_context) returns once g_main_loop_quit was called
LoopReturns == pc = "loop" /\ quit /\ ~aborted

\* the watch added by create_context (G_PRIORITY_DEFAULT) has something to
\* deliver: data or a terminal condition on sv[1]
HandlerReady == source /\ (cond \/ inbound # << >>)

\* context->pdu_offset++
NextOffset(off) == off + 1

\* mutant: the send is queued twice
g_idle_add_twice == idle + 2

\* g_idle_add(send_pdu, context)
g_idle_add == idle + 1

\* context_quit: g_main_loop_quit(context->main_loop)
context_quit == quit' = TRUE

\* mutant: the test of context_process inverted
ScriptExhausted_inverted(pdu) == pdu.valid

\* the test of context_process: the entry at the cursor is a terminator
ScriptExhausted(pdu) == ~pdu.valid

\* mutant: the next send is queued without looking at the entry
context_process_always_sends(off) == idle' = g_idle_add /\ UNCHANGED quit

\* context_process, called with the cursor already advanced to off
context_process(off) ==
    \E nxt \in EntryAt(off) :
        IF ScriptExhausted(nxt)
        THEN context_quit /\ UNCHANGED idle
        ELSE idle' = g_idle_add /\ UNCHANGED quit

\* mutant: the length assertion is missing
Verified_any_length(buf, pdu) == Len(buf) > 0

\* mutant: the memcmp assertion is missing
Verified_length_only(buf, pdu) == Len(buf) > 0 /\ Len(buf) = Len(pdu.data)

\* the three assertions of test_handler on the bytes read:
\* len > 0, len == pdu->size, memcmp(buf, pdu->data, pdu->size) == 0
Verified(buf, pdu) ==
    /\ Len(buf) > 0
    /\ Len(buf) = Len(pdu.data)
    /\ \A i \in 1 .. Len(pdu.data) : buf[i] = pdu.data[i]

\* what write(context->fd, pdu->data, pdu->size) may return: everything, less,
\* or an error
WriteResults(pdu) == { Len(pdu.data), Len(pdu.data) - 1, -1 }

\* g_new0 + g_main_loop_new + socketpair + avdtp_new + g_io_add_watch
create_context ==
    /\ ctxAlive' = TRUE
    /\ pdu_offset' = 0
    /\ source' = TRUE
    /\ inbound' = << >>
    /\ cond' = FALSE
    /\ quit' = FALSE
    /\ trace' = << >>
    /\ termIdx' = -1
    /\ readDiff' = NoDiff
    /\ lastCb' = NoCb

\* what create_context acquires, in order: the context, the main loop, the
\* session (with the socket pair), the watch
ContextResources == << "context", "main_loop", "session", "watch" >>

\* what test function k holds when it calls execute_context, in the order
\* acquired: all but test_discover register a local endpoint after
\* create_context
Acquired(k) ==
    ContextResources \o (IF k = "test_discover" THEN << >> ELSE << "sep" >>)

\* test_server up to the call of g_main_loop_run: the first send is queued
test_server ==
    /\ pc = "start" /\ ~aborted /\ kind = "test_server"
    /\ create_context
    /\ res' = [held |-> Acquired("test_server"), released |-> << >>]
    /\ idle' = g_idle_add
    /\ requested' = "none"
    /\ pc' = "loop"
    /\ UNCHANGED << pdu_list, kind, registered, pduAlloc, cur, aborted, stale >>

\* mutant: the client roles queue a first send as test_server does
ClientStart_queues_send(k) ==
    /\ pc = "start" /\ ~aborted /\ kind = k
    /\ create_context
    /\ res' = [held |-> Acquired(k), released |-> << >>]
    /\ idle' = g_idle_add
    /\ requested' = "discover"
    /\ pc' = "loop"
    /\ UNCHANGED << pdu_list, kind, registered, pduAlloc, cur, aborted, stale >>

\* the client-role test functions up to g_main_loop_run: avdtp_discover makes
\* the engine speak first; nothing is queued
ClientStart(k) ==
    /\ pc = "start" /\ ~aborted /\ kind = k
    /\ create_context
    /\ res' = [held |-> Acquired(k), released |-> << >>]
    /\ requested' = "discover"
    /\ pc' = "loop"
    /\ UNCHANGED << pdu_list, kind, registered, pduAlloc, cur, aborted, idle, stale >>

\* test_discover and test_get_capabilities: discover_cb registered with NULL
test_discover == ClientStart("test_discover")

\* discover_cb registered with the context, an endpoint without confirmations
test_set_configuration == ClientStart("test_set_configuration")

\* test_get_configuration, test_open, test_start: discover_cb and sep_cfm
\* registered with the context
test_get_configuration == ClientStart("test_get_configuration")

\* user_data given to avdtp_discover
DiscoverUserData == IF kind = "test_discover" THEN NULL ELSE "context"

\* user_data given to avdtp_register_sep together with &sep_cfm
CfmUserData == "context"

\* mutant: after a verified read the next entry is written before the
\* handler returns instead of being queued
test_handler_sends_inline ==
    /\ LoopRunning /\ HandlerReady
    /\ pdu_offset <= ScriptLen + 1 + MaxOob
    /\ IF cond
       THEN /\ pdu_offset' = NextOffset(pdu_offset)
            /\ source' = FALSE
            /\ termIdx' = pdu_offset
            /\ UNCHANGED << inbound, trace, readDiff, idle, quit, aborted >>
       ELSE \E pdu \in EntryAt(pdu_offset), buf \in Bytes(Head(inbound)) :
            /\ inbound' = Tail(inbound)
            /\ readDiff' = IF buf # pdu.data
                           THEN [idx |-> pdu_offset, sameLen |-> Len(buf) = Len(pdu.data)]
                           ELSE readDiff
            /\ IF Verified(buf, pdu)
               THEN \E nxt \in EntryAt(NextOffset(pdu_offset)) :
                      IF ScriptExhausted(nxt)
                      THEN /\ trace' = Append(trace, [op |-> "read", idx |-> pdu_offset])
                           /\ pdu_offset' = NextOffset(pdu_offset)
                           /\ context_quit
                           /\ UNCHANGED << idle, aborted >>
                      ELSE /\ trace' = trace \o << [op |-> "read", idx |-> pdu_offset],
                                                  [op |-> "write", idx |-> pdu_offset + 1] >>
                           /\ pdu_offset' = NextOffset(NextOffset(pdu_offset))
                           /\ UNCHANGED << idle, quit, aborted >>
               ELSE /\ aborted' = TRUE
                    /\ pdu_offset' = NextOffset(pdu_offset)
                    /\ UNCHANGED << trace, idle, quit >>
            /\ UNCHANGED << source, termIdx >>
    /\ UNCHANGED << res, pdu_list, kind, registered, pduAlloc, cur, pc, ctxAlive, cond, stale,
                    requested, lastCb >>

\* test_handler: one dispatch of the watch
test_handler ==
    /\ LoopRunning /\ HandlerReady
    /\ pdu_offset <= ScriptLen + 1 + MaxOob
    /\ pdu_offset' = NextOffset(pdu_offset)
    /\ IF cond
       THEN \* cond & (G_IO_NVAL | G_IO_ERR | G_IO_HUP): return FALSE
            /\ source' = FALSE
            /\ termIdx' = pdu_offset
            /\ UNCHANGED << inbound, trace, readDiff, idle, quit, aborted >>
       ELSE \E pdu \in EntryAt(pdu_offset), buf \in Bytes(Head(inbound)) :
            /\ inbound' = Tail(inbound)
            /\ readDiff' = IF buf # pdu.data
                           THEN [idx |-> pdu_offset, sameLen |-> Len(buf) = Len(pdu.data)]
                           ELSE readDiff
            /\ IF Verified(buf, pdu)
               THEN /\ trace' = Append(trace, [op |-> "read", idx |-> pdu_offset])
                    /\ context_process(NextOffset(pdu_offset))
                    /\ UNCHANGED aborted
               ELSE /\ aborted' = TRUE
                    /\ UNCHANGED << trace, idle, quit >>
            /\ UNCHANGED << source, termIdx >>
    /\ UNCHANGED << res, pdu_list, kind, registered, pduAlloc, cur, pc, ctxAlive, cond, stale,
                    requested, lastCb >>

\* the body of send_pdu run on the live context; reliable: write cannot fail
SendBody(reliable) ==
    /\ pdu_offset <= ScriptLen + 1 + MaxOob
    /\ pdu_offset' = NextOffset(pdu_offset)
    /\ \E pdu \in EntryAt(pdu_offset) : \E len \in (IF reliable THEN { Len(pdu.data) } ELSE WriteResults(pdu)) :
          IF len = Len(pdu.data)
          THEN /\ trace' = Append(trace, [op |-> "write", idx |-> pdu_offset])
               /\ UNCHANGED aborted
          ELSE /\ aborted' = TRUE
               /\ UNCHANGED trace

\* an idle source (G_PRIORITY_DEFAULT_IDLE) is dispatched only when no source of
\* higher priority is ready
IdleTurn == LoopRunning /\ ~HandlerReady

\* mutant: send_pdu returns TRUE and stays scheduled
SendPdu_rearmed(reliable) ==
    /\ IdleTurn
    /\ stale = 0
    /\ idle > 0
    /\ SendBody(reliable)
    /\ UNCHANGED << res, pdu_list, kind, registered, pduAlloc, cur, pc, ctxAlive, source, stale,
                    inbound, cond, quit, requested, termIdx, readDiff, lastCb, idle >>

\* send_pdu: one dispatch of an idle source of the running scenario; idle
\* sources run in the order they were added, those left by earlier scenarios first
SendPdu(reliable) ==
    /\ IdleTurn
    /\ stale = 0
    /\ idle > 0
    /\ idle' = idle - 1
    /\ SendBody(reliable)
    /\ UNCHANGED << res, pdu_list, kind, registered, pduAlloc, cur, pc, ctxAlive, source, stale,
                    inbound, cond, quit, requested, termIdx, readDiff, lastCb >>

send_pdu == SendPdu(FALSE)

\* send_pdu of an idle source left by an earlier scenario: its context was freed.
\* The use of the freed context is undefined: the process crashes, or the call
\* has no visible effect, or the block was reused by the running context.
stale_send_pdu ==
    /\ IdleTurn
    /\ stale > 0
    /\ stale' = stale - 1
    /\ \E outcome \in { "crash", "none", "reused" } :
          CASE outcome = "crash" ->
                 /\ aborted' = TRUE
                 /\ UNCHANGED << pdu_offset, trace >>
            [] outcome = "none" ->
                 UNCHANGED << pdu_offset, trace, aborted >>
            [] outcome = "reused" ->
                 SendBody(FALSE)
    /\ UNCHANGED << res, pdu_list, kind, registered, pduAlloc, cur, pc, ctxAlive, source, idle,
                    inbound, cond, quit, requested, termIdx, readDiff, lastCb >>

\* ----------------------------------------------------- session callbacks
\* What a callback leaves behind: abort (an assertion failed) and the engine
\* operation it requested ("none": nothing requested).
CbResult(abort, op) == [abort |-> abort, op |-> op]

\* mutant: g_assert(err == NULL) is missing
discover_cb_ignores_err(context, err, nseps, rsep, ret) ==
    IF context = NULL THEN CbResult(FALSE, "none")
    ELSE IF nseps = 0 THEN CbResult(TRUE, "none")
    ELSE IF ~rsep THEN CbResult(TRUE, "none")
    ELSE CbResult(ret # 0, "set_configuration")

\* discover_cb(session, seps, err, user_data); nseps = g_slist_length(seps),
\* rsep = avdtp_find_remote_sep found one, ret = avdtp_set_configuration's status
discover_cb(context, err, nseps, rsep, ret) ==
    IF context = NULL THEN CbResult(FALSE, "none")
    ELSE IF err THEN CbResult(TRUE, "none")
    ELSE IF nseps = 0 THEN CbResult(TRUE, "none")
    ELSE IF ~rsep THEN CbResult(TRUE, "none")
    ELSE CbResult(ret # 0, "set_configuration")

\* mutant: the two cases of the switch exchanged
sep_setconf_cfm_swapped(context, err, pdu, ret) ==
    IF err THEN CbResult(TRUE, "none")
    ELSE IF context = NULL THEN CbResult(FALSE, "none")
    ELSE IF Len(pdu.data) < 2 THEN CbResult(FALSE, "none")
    ELSE CASE pdu.data[2] = 4 -> CbResult(ret # 0, "open")
           [] pdu.data[2] = 6 -> CbResult(ret # 0, "get_configuration")
           [] OTHER -> CbResult(TRUE, "none")

\* sep_setconf_cfm(session, sep, stream, err, user_data); pdu is the entry at
\* the cursor, ret the status of the operation requested
sep_setconf_cfm(context, err, pdu, ret) ==
    IF err THEN CbResult(TRUE, "none")
    ELSE IF context = NULL THEN CbResult(FALSE, "none")
    ELSE IF Len(pdu.data) < 2 THEN CbResult(FALSE, "none")
    ELSE CASE pdu.data[2] = 4 -> CbResult(ret # 0, "get_configuration")
           [] pdu.data[2] = 6 -> CbResult(ret # 0, "open")
           [] OTHER -> CbResult(TRUE, "none")

\* sep_open_cfm(session, sep, stream, err, user_data); fd = open("/dev/null"),
\* ret = avdtp_start's status
sep_open_cfm(err, fd, ret) ==
    IF err THEN CbResult(TRUE, "none")
    ELSE IF fd < 0 THEN CbResult(TRUE, "none")
    ELSE CbResult(ret # 0, "start")

\* The engine completes the operation requested of it and reports through the
\* callback registered for it, once, with or without an error.
Invoke(name, ctx, err, r) ==
    /\ LoopRunning
    /\ lastCb' = [name |-> name, err |-> err, ctx |-> ctx # NULL]
    /\ aborted' = r.abort
    /\ requested' = r.op
    /\ UNCHANGED << res, pdu_list, kind, registered, pduAlloc, cur, pc, ctxAlive, pdu_offset, source,
                    idle, stale, inbound, cond, quit, trace, termIdx, readDiff >>

Statuses == { 0, -1 }

InvokeDiscoverCb ==
    /\ requested = "discover"
    /\ \E err \in BOOLEAN, nseps \in 0 .. 1, rsep \in BOOLEAN, ret \in Statuses :
          Invoke("discover_cb", DiscoverUserData, err,
                 discover_cb(DiscoverUserData, err, nseps, rsep, ret))

InvokeSepSetconfCfm ==
    /\ requested = "set_configuration"
    /\ kind = "test_get_configuration"
    /\ pdu_offset <= ScriptLen + 1 + MaxOob
    /\ \E err \in BOOLEAN, ret \in Statuses : \E pdu \in EntryAt(pdu_offset) :
          Invoke("sep_setconf_cfm", CfmUserData, err,
                 sep_setconf_cfm(CfmUserData, err, pdu, ret))

InvokeSepOpenCfm ==
    /\ requested = "open"
    /\ kind = "test_get_configuration"
    /\ \E err \in BOOLEAN, fd \in { 3, -1 }, ret \in Statuses :
          Invoke("sep_open_cfm", CfmUserData, err, sep_open_cfm(err, fd, ret))

\* ---------------------------------------------------------------- teardown
\* The rest of the test function once g_main_loop_run has returned:
\* g_source_remove, avdtp_unref, g_main_loop_unref, g_free(context), then
\* avdtp_unregister_sep and g_free(test->pdu_list).  Idle sources are not
\* removed: those still pending stay in the default main context.
\* finalize: avdtp_unref ends a discovery still outstanding by calling its
\* callback with an error.

\* mutant: the context is freed before what it refers to is released
ReleaseOrder_context_first(held) ==
    << "context", "watch", "session", "main_loop" >>
        \o (IF \E i \in 1 .. Len(held) : held[i] = "sep" THEN << "sep" >> ELSE << >>)

\* the order in which execute_context and then the test function release
\* what is held: g_source_remove, avdtp_unref, g_main_loop_unref, g_free,
\* and after execute_context returned avdtp_unregister_sep
ReleaseOrder(held) ==
    << "watch", "session", "main_loop", "context" >>
        \o (IF \E i \in 1 .. Len(held) : held[i] = "sep" THEN << "sep" >> ELSE << >>)

Teardown(finalize) ==
    /\ LoopReturns
    /\ \E fin \in finalize :
        /\ fin => requested = "discover"
        /\ LET r == IF fin THEN discover_cb(DiscoverUserData, TRUE, 0, FALSE, -1)
                    ELSE CbResult(FALSE, "none")
           IN  /\ source' = FALSE
               /\ lastCb' = IF fin
                            THEN [name |-> "discover_cb", err |-> TRUE,
                                  ctx |-> DiscoverUserData # NULL]
                            ELSE lastCb
               /\ IF r.abort
                  THEN /\ aborted' = TRUE
                       /\ res' = [held |-> SelectSeq(res.held, LAMBDA x : x # "watch"),
                                  released |-> << "watch" >>]
                       /\ UNCHANGED << pduAlloc, cur, pc, ctxAlive, pdu_offset, idle,
                                       stale, inbound, cond, quit, requested >>
                  ELSE /\ ctxAlive' = FALSE
                       /\ res' = [held |-> << >>, released |-> ReleaseOrder(res.held)]
                       /\ pdu_offset' = 0
                       /\ idle' = 0
                       /\ stale' = stale + idle
                       /\ inbound' = << >>
                       /\ cond' = FALSE
                       /\ quit' = FALSE
                       /\ requested' = "none"
                       /\ pduAlloc' = [pduAlloc EXCEPT ![cur] = FALSE]
                       /\ cur' = cur + 1
                       /\ pc' = IF cur = registered THEN "done" ELSE "start"
                       /\ UNCHANGED aborted
    /\ UNCHANGED << pdu_list, kind, registered, trace, termIdx, readDiff >>

execute_context == Teardown(BOOLEAN)

\* ------------------------------------------------------------- environment
\* the engine writes a PDU, any PDU, to sv[0]
SutEmit ==
    /\ LoopRunning /\ ~cond
    /\ Len(inbound) < MaxInbound
    /\ inbound' = Append(inbound, AnyPdu)
    /\ UNCHANGED << res, pdu_list, kind, registered, pduAlloc, cur, pc, ctxAlive, pdu_offset, source,
                    idle, stale, cond, quit, aborted, requested, trace, termIdx,
                    readDiff, lastCb >>

\* the engine closes sv[0], or the socket fails
SutHangup ==
    /\ LoopRunning /\ ~cond
    /\ cond' = TRUE
    /\ UNCHANGED << res, pdu_list, kind, registered, pduAlloc, cur, pc, ctxAlive, pdu_offset, source,
                    idle, stale, inbound, quit, aborted, requested, trace,
                    termIdx, readDiff, lastCb >>

Next ==
    \/ test_server
    \/ test_discover
    \/ test_set_configuration
    \/ test_get_configuration
    \/ test_handler
    \/ send_pdu
    \/ execute_context
    \/ InvokeDiscoverCb
    \/ InvokeSepSetconfCfm
    \/ InvokeSepOpenCfm
    \/ SutEmit
    \/ SutHangup

\* one scenario, any engine
Spec == Init /\ [][Next]_vars

\* a suite of scenarios run one after the other in one process, any engine
InitSuite == InitWith(MaxNSuite, NumTests)

NextSuite == Next \/ stale_send_pdu

SpecSuite == InitSuite /\ [][NextSuite]_vars

\* ------------------------------------------------ conforming engine
\* The engine emits exactly the entry the script expects next, once per turn,
\* and nothing else; writes succeed; no callback is invoked.
send_pdu_ok == SendPdu(TRUE)

\* The engine's turn: it started the exchange (avdtp_discover) or it was
\* written to, and it has not answered yet.
SutTurn ==
    /\ inbound = << >>
    /\ IF trace = << >> THEN kind # "test_server"
       ELSE trace[Len(trace)].op = "write"

SutRespond ==
    /\ LoopRunning /\ SutTurn
    /\ pdu_offset \in DOMAIN pdu_list
    /\ pdu_list[pdu_offset].valid
    /\ inbound' = << pdu_list[pdu_offset].data >>
    /\ UNCHANGED << res, pdu_list, kind, registered, pduAlloc, cur, pc, ctxAlive, pdu_offset, source,
                    idle, stale, cond, quit, aborted, requested, trace, termIdx,
                    readDiff, lastCb >>

execute_context_quiet == Teardown({ FALSE })

InitConf == InitWith(MaxNConf, 1)

NextConf ==
    \/ test_server
    \/ test_discover
    \/ test_set_configuration
    \/ test_get_configuration
    \/ test_handler
    \/ send_pdu_ok
    \/ SutRespond
    \/ execute_context_quiet

\* The main loop dispatches a ready source, the engine answers when it is its
\* turn, and g_test_run calls the next test function.
SpecConf == InitConf /\ [][NextConf]_vars /\ WF_vars(NextConf)

\* ================================================================== claims
\* the scenario reached Completed: context_process requested loop termination
Completed == quit

\* the scenario reached Failed: an assertion aborted the process
Failed == aborted

\* the last valid entry of the script is one the harness reads: in the server
\* role the harness writes first, in the client roles the engine does
LastIsInbound ==
    /\ ScriptLen >= 1
    /\ (kind = "test_server") <=> (ScriptLen % 2 = 0)

\* ---- C1 -----------------------------------------------------------------
\* C1 (as claimed): for every engine behaviour the i-th write or verified read
\* uses script entry i (0-based: the first uses entry 0), and no two harness
\* writes follow each other without a verified read between them.  Stated
\* here for the runs in which no terminal condition was delivered.
C1_OrderedAlternating ==
    termIdx < 0 =>
        /\ \A i \in 1 .. Len(trace) : trace[i].idx = i - 1
        /\ \A i \in 1 .. (Len(trace) - 1) :
              ~(trace[i].op = "write" /\ trace[i + 1].op = "write")

C3_Altered == readDiff.idx >= 0 /\ readDiff.sameLen

\* C3: when the bytes read at position k have the length of entry k but differ
\* from it, the scenario is Failed at that comparison: it is not Completed,
\* every entry written or verified lies before k, the cursor stands at k + 1,
\* and nothing changes afterwards.
C3_FailedAtMismatch ==
    /\ [](C3_Altered =>
            /\ Failed
            /\ ~Completed
            /\ pdu_offset = readDiff.idx + 1
            /\ \A i \in 1 .. Len(trace) : trace[i].idx < readDiff.idx)
    /\ [][C3_Altered => UNCHANGED << pdu_offset, trace, quit, aborted, idle >>]_vars

\* an altered inbound entry was met after at least one entry went through
C3_Witness == C3_Altered /\ Failed /\ readDiff.idx >= 1 /\ Len(trace) >= 1

\* ---- C4 -----------------------------------------------------------------
\* C4 (as claimed): the cursor never decreases, never exceeds the number n of
\* valid entries, and once it stands at the terminal sentinel nothing more is
\* sent or read.  Stated here for the scripts with a valid entry and the runs
\* in which no assertion failed.
C4_CursorWithinScript ==
    /\ []((ctxAlive /\ ScriptLen >= 1 /\ ~Failed) => pdu_offset <= ScriptLen)
    /\ [][(ctxAlive /\ ctxAlive' /\ ScriptLen >= 1 /\ ~Failed') =>
            /\ pdu_offset' >= pdu_offset
            /\ (pdu_offset = ScriptLen => pdu_offset' = pdu_offset)]_vars

\* ---- C5 -----------------------------------------------------------------
\* C5 (as claimed): a script of the terminal sentinel alone is Completed as
\* soon as the scenario runs, in every role, with no write and no read: no
\* entry is ever consumed, and when the loop has nothing left to dispatch the
\* scenario is Completed.
C5_EmptyScriptCompletes ==
    (ScriptLen = 0 /\ pc = "loop") =>
        /\ trace = << >>
        /\ pdu_offset = 0
        /\ (idle = 0 /\ ~HandlerReady) => Completed

\* ---- C6 -----------------------------------------------------------------
\* C6 (as claimed): once test_handler was invoked with a terminal condition
\* before the script was exhausted, the scenario is Failed.
C6_TerminalConditionFails == (termIdx >= 0 /\ termIdx < ScriptLen) => Failed

\* ---- C7 -----------------------------------------------------------------
\* C7 (as claimed): after any callback invocation that carried an error the
\* scenario is Failed.
C7_ErrorAlwaysFails == lastCb.err => Failed

\* C7 (amended): a callback invocation that carries an error fails the
\* scenario when the callback is sep_setconf_cfm or sep_open_cfm, or is
\* discover_cb registered with the context; discover_cb registered with NULL
\* returns without failing it, whatever it is given.
C7_ErrorFailsUnlessNoContext ==
    /\ []((lastCb.err /\ (lastCb.name # "discover_cb" \/ lastCb.ctx)) => Failed)
    /\ [][(lastCb' # lastCb /\ lastCb'.name = "discover_cb" /\ ~lastCb'.ctx)
            => ~Failed']_vars

\* avdtp_unref reported the outstanding discovery as failed to a discover_cb
\* registered with the context, after the exchange had Completed
C7_Witness ==
    /\ lastCb = [name |-> "discover_cb", err |-> TRUE, ctx |-> TRUE]
    /\ quit
    /\ Failed

C9_NothingLeftBehind ==
    (pc = "start" /\ cur >= 2) =>
        /\ stale = 0
        /\ idle = 0
        /\ ~source
        /\ ~ctxAlive
        /\ \A t \in Tests : pduAlloc[t]

\* ---- C10 ----------------------------------------------------------------
\* a server-role scenario with an even, non-zero number of valid entries
C10_Case == kind = "test_server" /\ ScriptLen >= 2 /\ ScriptLen % 2 = 0

\* the i-th event (1-based) of a server-role exchange
C10_Expected(i) == [op |-> IF i % 2 = 1 THEN "write" ELSE "read", idx |-> i - 1]

\* C10: in the server role with 2k >= 2 valid entries and a conforming engine
\* the even entries are written and the odd ones read and verified, in index
\* order, with no mismatch; the run reaches Completed, and then k writes and k
\* reads were made and the cursor is 2k.
C10_ServerExchange ==
    /\ [](C10_Case =>
            /\ \A i \in 1 .. Len(trace) : trace[i] = C10_Expected(i)
            /\ readDiff = NoDiff
            /\ ~Failed
            /\ Completed => (Len(trace) = ScriptLen /\ pdu_offset = ScriptLen))
    /\ C10_Case => <>Completed

\* the four-entry server script was run to its end: cursor 4
C10_Witness == C10_Case /\ Completed /\ ScriptLen = 4 /\ pdu_offset = 4

\* ---- C11 ----------------------------------------------------------------
\* /TP/SIG/SMG/BV-05-C: test_discover with the script of the single entry
\* {0x00, 0x01}
C11_Case == kind = "test_discover" /\ pdu_list = define_test(<< <<0, 1>> >>)

\* C11: in the client-role discover scenario with a conforming engine no send
\* is ever scheduled or written, the only event is the verified read of entry
\* 0, the scenario is Completed exactly when that read was made, and the run
\* reaches Completed.
C11_DiscoverScenario ==
    /\ [](C11_Case =>
            /\ idle = 0
            /\ Len(trace) <= 1
            /\ \A i \in 1 .. Len(trace) : trace[i] = [op |-> "read", idx |-> 0]
            /\ ~Failed
            /\ Completed => Len(trace) = 1
            /\ (pc = "loop" /\ Len(trace) = 1) => Completed)
    /\ C11_Case => <>Completed

\* the discover scenario Completed after its one read, the cursor at the sentinel
C11_Witness == C11_Case /\ Completed /\ Len(trace) = 1 /\ pdu_offset = 1 /\ idle = 0

\* ---- C12 ----------------------------------------------------------------
\* a step in which test_handler verified a read
C12_VerifiedRead ==
    /\ Len(trace') = Len(trace) + 1
    /\ trace'[Len(trace')].op = "read"

\* C12: a step in which test_handler verifies a read does exactly one of two
\* things, decided by the entry at the advanced cursor: at a sentinel it
\* requests loop termination and schedules no send, otherwise it schedules
\* exactly one send and does not request termination; the watch stays
\* attached in both cases.
C12_QuitOrOneSend ==
    [][C12_VerifiedRead =>
          /\ source' /\ source
          /\ pdu_offset' = pdu_offset + 1
          /\ \E nxt \in EntryAt(pdu_offset') :
                IF ~nxt.valid
                THEN quit' /\ ~quit /\ idle' = idle
                ELSE ~quit' /\ idle' = idle + 1]_vars

\* a run in which both happened: the read of entry 0 scheduled the send of
\* entry 1, the read of entry 2 requested termination
C12_Witness ==
    /\ Len(trace) = 3
    /\ trace[1].op = "read" /\ trace[2].op = "write" /\ trace[3].op = "read"
    /\ quit /\ idle = 0

\* ---- C13 ----------------------------------------------------------------
\* a step of send_pdu: the cursor advances and nothing was taken from the socket
C13_SendStep ==
    /\ pdu_offset' = pdu_offset + 1
    /\ inbound' = inbound
    /\ termIdx' = termIdx

\* the harness wrote last and the loop has nothing to dispatch
C13_WaitingAfterSend ==
    /\ LoopRunning
    /\ trace # << >> /\ trace[Len(trace)].op = "write"
    /\ idle = 0 /\ inbound = << >> /\ ~cond

\* C13: a run of send_pdu uses up one scheduling, schedules nothing and does
\* not request loop termination; termination is requested only in a step that
\* verifies a read; and while the harness waits after a send and nothing
\* arrives from the engine, the scenario neither completes nor fails nor
\* moves at all.
C13_SendDoesNotChain ==
    /\ [][C13_SendStep => (idle > 0 /\ idle' = idle - 1 /\ ~quit /\ ~quit')]_vars
    /\ [][(~quit /\ quit') => C12_VerifiedRead]_vars
    /\ [][(C13_WaitingAfterSend /\ inbound' = inbound /\ cond' = cond /\ lastCb' = lastCb)
            => UNCHANGED << quit, aborted, pdu_offset, trace, idle, pc >>]_vars

\* the server wrote the only entry of its script and waits
C13_Witness ==
    /\ C13_WaitingAfterSend
    /\ kind = "test_server" /\ ScriptLen = 1
    /\ trace = << [op |-> "write", idx |-> 0] >>

\* ---- C14 ----------------------------------------------------------------
\* C14: no write to the peer endpoint is made inside test_handler or inside a
\* session callback.  A step records at most one event; the step that
\* verifies a read takes a PDU from the socket and writes nothing, leaving
\* the send it requested pending; the step that writes an entry takes nothing
\* from the socket, compares nothing and runs no callback, and uses up a send
\* that was pending before the step; a step that runs a callback writes
\* nothing.
C14_WritesAreDeferred ==
    [][/\ Len(trace') > Len(trace) =>
            /\ Len(trace') = Len(trace) + 1
            /\ \A i \in 1 .. Len(trace) : trace'[i] = trace[i]
            /\ trace'[Len(trace')].op = "read" =>
                  /\ inbound' = Tail(inbound)
                  /\ idle' >= idle
                  /\ pdu_offset' = pdu_offset + 1
            /\ trace'[Len(trace')].op = "write" =>
                  /\ idle > 0
                  /\ inbound' = inbound
                  /\ readDiff' = readDiff
                  /\ lastCb' = lastCb
                  /\ pdu_offset' = pdu_offset + 1
       /\ (lastCb' # lastCb /\ ctxAlive /\ ctxAlive') => (trace' = trace /\ pdu_offset' = pdu_offset)]_vars

\* a send requested by a verified read is pending, the entry not yet written
C14_Witness ==
    /\ LoopRunning
    /\ trace # << >> /\ trace[Len(trace)] = [op |-> "read", idx |-> pdu_offset - 1]
    /\ idle = 1
    /\ kind # "test_server"

\* ---- C15 ----------------------------------------------------------------
\* C15 (as claimed): while a scenario runs and has not failed, the cursor
\* equals the number of writes made by send_pdu plus the number of reads that
\* passed verification; in particular a terminal condition delivered to
\* test_handler leaves it unchanged.
C15_CursorCountsEvents == (ctxAlive /\ ~Failed) => pdu_offset = Len(trace)

\* ---- C16 ----------------------------------------------------------------
\* the handler read a number of bytes different from the length of the entry
C16_WrongLength == readDiff.idx >= 0 /\ ~readDiff.sameLen

\* C16: an entry is written or compared in one operation, never retried.  A
\* read of another length than the entry's fails the scenario at that entry;
\* a send_pdu step that does not complete its write fails it; nothing runs
\* once the scenario failed; and no entry is written or verified twice.
C16_NoRetry ==
    /\ [](C16_WrongLength =>
            /\ Failed
            /\ ~Completed
            /\ pdu_offset = readDiff.idx + 1)
    /\ [][(C13_SendStep /\ trace' = trace) => Failed']_vars
    /\ [][~Failed]_vars
    /\ [](\A i, j \in 1 .. Len(trace) : i < j => trace[i].idx < trace[j].idx)

\* a PDU of another length arrived where entry 1 or a later one was expected
C16_Witness == C16_WrongLength /\ Failed /\ readDiff.idx >= 1 /\ Len(trace) >= 1

\* ---- C17 ----------------------------------------------------------------
C17_Reverse(s) == [i \in 1 .. Len(s) |-> s[Len(s) + 1 - i]]

\* the step in which a teardown ran to its end
C17_TornDown == ctxAlive /\ ~ctxAlive'

C18_Confirmed ==
    /\ lastCb' # lastCb
    /\ lastCb'.name = "sep_setconf_cfm" /\ ~lastCb'.err /\ lastCb'.ctx
    /\ pdu_offset \in DOMAIN pdu_list

\* the operation the second byte of an entry selects
C18_FollowUp(pdu) ==
    IF Len(pdu.data) < 2 THEN "none"
    ELSE IF pdu.data[2] = 4 THEN "get_configuration"
    ELSE IF pdu.data[2] = 6 THEN "open"
    ELSE "fatal"

\* C18: sep_setconf_cfm delivered without error and with the context requests
\* the operation selected by the second byte of the entry at the cursor
\* (0x04 get-configuration, 0x06 open), fails the scenario on any other
\* second byte, requests nothing on an entry shorter than two bytes; a
\* non-zero status of the operation requested fails the scenario; the cursor
\* and the script are unchanged.
C18_FollowUpFromScript ==
    /\ [][C18_Confirmed =>
            LET f == C18_FollowUp(pdu_list[pdu_offset])
            IN  /\ f = "none" => (requested' = "none" /\ ~Failed')
                /\ f = "fatal" => (requested' = "none" /\ Failed')
                /\ f \in { "get_configuration", "open" } => requested' = f
                /\ UNCHANGED << pdu_offset, pdu_list, trace, idle, quit >>]_vars
    /\ [](\A i \in DOMAIN pdu_list : \A ret \in Statuses :
            LET f == C18_FollowUp(pdu_list[i])
                r == sep_setconf_cfm(CfmUserData, FALSE, pdu_list[i], ret)
            IN  r.abort <=> (f = "fatal" \/ (f \in { "get_configuration", "open" } /\ ret # 0)))

\* the confirmation found {0x00, 0x06} at the cursor after a first exchange
\* and requested open
C18_Witness ==
    /\ lastCb = [name |-> "sep_setconf_cfm", err |-> FALSE, ctx |-> TRUE]
    /\ requested = "open" /\ ~Failed
    /\ pdu_offset >= 1 /\ pdu_offset \in DOMAIN pdu_list
    /\ pdu_list[pdu_offset].data = <<0, 6>>

\* ---- C19 ----------------------------------------------------------------
\* C19 (as claimed): for every engine behaviour every index at which the
\* script is read lies inside the n + 2 allocated entries.  send_pdu and
\* test_handler leave the cursor one past the index they read, so the cursor
\* never exceeds n + 2; context_process and sep_setconf_cfm read at the cursor
\* itself, so they never run with the cursor past n + 1.
C19_ReadsInsideScript ==
    /\ [](ctxAlive => pdu_offset <= ScriptLen + 2)
    /\ [][(C12_VerifiedRead \/ (lastCb' # lastCb /\ lastCb'.name = "sep_setconf_cfm"
                                  /\ ~lastCb'.err))
            => pdu_offset' <= ScriptLen + 1]_vars

\* ---- C20 ----------------------------------------------------------------
\* C20 (as claimed): for every engine behaviour at most one deferred send is
\* pending for a scenario, none is pending when loop termination was
\* requested, and none is left pending with a context that was freed.
C20_AtMostOnePendingSend ==
    /\ idle <= 1
    /\ quit => idle = 0
    /\ stale = 0

====
